---- MODULE Spec2Model ----
(***************************************************************************)
(* Model of the Icinga DB config synchronisation (pkg/icingadb/sync.go):   *)
(* SyncAfterDump waits for the dump-done signal, Sync enumerates the       *)
(* desired state (Redis) and the actual state (database) under one         *)
(* errgroup, a Delta partitions the ids into Create / Update / Delete and  *)
(* ApplyDelta writes the partitions to the database.                       *)
(***************************************************************************)
EXTENDS Integers, FiniteSets, Sequences, TLC

\* ------------------------------------------------------------------ bounds
MaxTicks == 2
MaxFailures == 1

\* The entities a subject can have, and the checksums they can carry.
Ids == {"x", "y"}
Checksums == {"AA", "BB"}

\* ----------------------------------------------------------------- helpers
\* A keyed-checksum mapping id -> checksum over some subset of the ids.
Mappings == UNION {[S -> Checksums] : S \in SUBSET Ids}

\* The checksum the cache holds for an entity when it holds the entity
\* (checksums are opaque: only the comparison with the checksum of the same
\* id in the database matters, so each id gets one desired checksum).
Cache == [id \in Ids |-> IF id = "x" THEN "AA" ELSE "BB"]

DesiredStates == {[id \in S |-> Cache[id]] : S \in SUBSET Ids}

Empty == [k \in {} |-> 0]

Put(f, k, v) == [x \in DOMAIN f \cup {k} |-> IF x = k THEN v ELSE f[x]]

Remove(f, k) == [x \in DOMAIN f \ {k} |-> f[x]]

\* Error values; "nil" is the absence of an error.
Failures == {"CacheFailure", "DbFailure", "DecodeFailure", "Inconsistency"}

\* The streams that have an error channel forwarded by com.ErrgroupReceive.
Paths == {"create", "update"}
Stages == {"fetch", "hydrate", "bind"}
SyncStreams == {<<"sync", "redis">>, <<"sync", "db">>}
ApplyStreams == Paths \X Stages
Streams == SyncStreams \cup ApplyStreams
Writers == {"create", "update", "delete"}

VARIABLES
    D,              \* desired state in the cache: id -> checksum
    A,              \* rows the database select returns: id -> checksum
    w,              \* subject.WithChecksum()
    db,             \* current database content: id -> checksum
    dumpDone,       \* dump.Done(key) is ready
    cancelledFirst, \* the ctx was done when dump.Done(key) became ready
    ctxCancelled,   \* the ctx handed to SyncAfterDump is done
    tickReady,      \* logTicker.C holds a tick
    ticks,          \* 20 s periods that have elapsed
    loggedWaiting,  \* local loggedWaiting
    logCount,       \* "Waiting for dump done signal" entries emitted
    sadPc,          \* SyncAfterDump: "waiting", "syncing", "returned"
    sadResult,      \* value SyncAfterDump returned
    syncCalls,      \* number of calls of Sync
    g1err,          \* err of the errgroup of Sync
    errCh,          \* per stream: "idle", "open", the error it has sent, "done", "failed"
    desiredSent,    \* ids the desired stream has delivered
    actualSent,     \* ids the actual stream has delivered
    desiredMap,     \* Delta: the desired map under construction
    deltaCreate,    \* Delta.Create
    deltaUpdate,    \* Delta.Update
    deltaDelete,    \* Delta.Delete
    deltaDone,      \* Delta.done: "building", "nil" or an error
    adPc,           \* ApplyDelta: "idle", "wait", "running", "returned"
    g2err,          \* err of the errgroup of ApplyDelta
    pipe,           \* per writer: id -> stage the entity has reached
    wr,             \* per writer goroutine: "idle", "running", "done", "failed"
    fetchKeys,      \* per path: keys handed to HMYield
    firstErr        \* first non-nil error handed to the errgroup of Sync

vars == <<D, A, w, db, dumpDone, cancelledFirst, ctxCancelled, tickReady, ticks, loggedWaiting,
          logCount, sadPc, sadResult, syncCalls, g1err, errCh, desiredSent,
          actualSent, desiredMap, deltaCreate, deltaUpdate, deltaDelete,
          deltaDone, adPc, g2err, pipe, wr, fetchKeys, firstErr>>

envVars == <<D, A, w>>
barrierVars == <<dumpDone, cancelledFirst, tickReady, ticks, loggedWaiting, logCount, syncCalls>>
deltaVars == <<desiredSent, actualSent, desiredMap, deltaCreate, deltaUpdate,
               deltaDelete, deltaDone>>
applyVars == <<adPc, g2err, pipe, wr, fetchKeys>>

\* ------------------------------------------------------------------ scopes
\* An errgroup that keeps the last error returned instead of the first.
GoReturnLast(gerr, e) == IF e # "nil" THEN e ELSE gerr

\* errgroup.Group.Go: the first non-nil error returned by a goroutine is kept.
GoReturn(gerr, e) == IF gerr = "nil" THEN e ELSE gerr

\* ctx of Sync (errgroup.WithContext): done when the parent is done or when a
\* goroutine of the group has returned an error.
Ctx1Done == ctxCancelled \/ g1err # "nil"

\* ctx of ApplyDelta, derived from the ctx of Sync.
Ctx2Done == Ctx1Done \/ g2err # "nil"

\* The state in which SyncAfterDump is called, but for the subject.
Start ==
    /\ db = A
    /\ dumpDone = FALSE
    /\ cancelledFirst = FALSE
    /\ ctxCancelled = FALSE
    /\ tickReady = FALSE
    /\ ticks = 0
    /\ loggedWaiting = FALSE
    /\ logCount = 0
    /\ sadPc = "waiting"
    /\ sadResult = "none"
    /\ syncCalls = 0
    /\ g1err = "nil"
    /\ errCh = [s \in Streams |-> "idle"]
    /\ desiredSent = {}
    /\ actualSent = {}
    /\ desiredMap = Empty
    /\ deltaCreate = Empty
    /\ deltaUpdate = Empty
    /\ deltaDelete = {}
    /\ deltaDone = "building"
    /\ adPc = "idle"
    /\ g2err = "nil"
    /\ pipe = [x \in Writers |-> Empty]
    /\ wr = [x \in Writers |-> "idle"]
    /\ fetchKeys = [p \in Paths |-> {}]
    /\ firstErr = "nil"

\* SyncAfterDump is called for any subject, cache and database.
Init ==
    /\ D \in DesiredStates
    /\ A \in Mappings
    /\ w \in BOOLEAN
    /\ Start

\* SyncAfterDump is called for a subject that has an entity to update or to
\* create and entities to delete.
InitBarrier ==
    /\ D = [id \in {"x"} |-> Cache[id]]
    /\ A = [id \in Ids |-> "BB"]
    /\ w \in BOOLEAN
    /\ Start

\* Sync is called directly (it does not respect dump signals), for any
\* subject, cache and database: the state once Sync has created its errgroup,
\* started both YieldAll streams and the goroutine that runs ApplyDelta.
InitSync ==
    /\ D \in DesiredStates
    /\ A \in Mappings
    /\ w \in BOOLEAN
    /\ db = A
    /\ dumpDone = FALSE
    /\ cancelledFirst = FALSE
    /\ ctxCancelled = FALSE
    /\ tickReady = FALSE
    /\ ticks = 0
    /\ loggedWaiting = FALSE
    /\ logCount = 0
    /\ sadPc = "syncing"
    /\ sadResult = "none"
    /\ syncCalls = 1
    /\ g1err = "nil"
    /\ errCh = [s \in Streams |-> IF s \in SyncStreams THEN "open" ELSE "idle"]
    /\ desiredSent = {}
    /\ actualSent = {}
    /\ desiredMap = Empty
    /\ deltaCreate = Empty
    /\ deltaUpdate = Empty
    /\ deltaDelete = {}
    /\ deltaDone = "building"
    /\ adPc = "wait"
    /\ g2err = "nil"
    /\ pipe = [x \in Writers |-> Empty]
    /\ wr = [x \in Writers |-> "idle"]
    /\ fetchKeys = [p \in Paths |-> {}]
    /\ firstErr = "nil"

\* ------------------------------------------------------------- environment
\* The config dump finishes: dump.Done(key) becomes ready.
DumpDone ==
    /\ ~dumpDone
    /\ dumpDone' = TRUE
    /\ cancelledFirst' = ctxCancelled
    /\ UNCHANGED <<envVars, db, ctxCancelled, tickReady, ticks, loggedWaiting,
                   logCount, sadPc, sadResult, syncCalls, g1err, errCh,
                   deltaVars, applyVars, firstErr>>

\* The caller cancels the context.
CancelCtx ==
    /\ ~ctxCancelled
    /\ sadPc # "returned"
    /\ ctxCancelled' = TRUE
    /\ UNCHANGED <<envVars, db, dumpDone, cancelledFirst, tickReady, ticks, loggedWaiting,
                   logCount, sadPc, sadResult, syncCalls, g1err, errCh,
                   deltaVars, applyVars, firstErr>>

\* 20 seconds elapse: the ticker offers a tick (its channel holds one tick).
\* The select of SyncAfterDump, which does nothing but wait, has received the
\* tick of the period before by then.
Tick ==
    /\ sadPc = "waiting"
    /\ ~tickReady
    /\ ticks < MaxTicks
    /\ ticks' = ticks + 1
    /\ tickReady' = TRUE
    /\ UNCHANGED <<envVars, db, dumpDone, cancelledFirst, ctxCancelled, loggedWaiting,
                   logCount, sadPc, sadResult, syncCalls, g1err, errCh,
                   deltaVars, applyVars, firstErr>>

\* ----------------------------------------------------------- SyncAfterDump
\* A loop that logs on every turn, tick or not.
SADLogEveryTurn ==
    /\ sadPc = "waiting"
    /\ tickReady' = FALSE
    /\ logCount' = logCount + 1
    /\ loggedWaiting' = TRUE
    /\ UNCHANGED <<envVars, db, dumpDone, cancelledFirst, ctxCancelled, ticks, sadPc,
                   sadResult, syncCalls, g1err, errCh, deltaVars, applyVars, firstErr>>

\* select case <-logTicker.C
SADLog ==
    /\ sadPc = "waiting"
    /\ tickReady
    /\ tickReady' = FALSE
    /\ logCount' = logCount + 1
    /\ loggedWaiting' = TRUE
    /\ UNCHANGED <<envVars, db, dumpDone, cancelledFirst, ctxCancelled, ticks, sadPc,
                   sadResult, syncCalls, g1err, errCh, deltaVars, applyVars, firstErr>>

\* A select whose dump-done case fires without the signal.
SignalReadyAlways == TRUE

\* Guard of the select case <-dump.Done(key).
SignalReady == dumpDone

\* select case <-dump.Done(key): return s.Sync(ctx, subject).  Sync creates
\* the errgroup, starts both YieldAll streams with their error forwarders and
\* the goroutine that runs ApplyDelta on a new Delta.
SADSignal ==
    /\ sadPc = "waiting"
    /\ SignalReady
    /\ sadPc' = "syncing"
    /\ syncCalls' = syncCalls + 1
    /\ errCh' = [s \in Streams |-> IF s \in SyncStreams THEN "open" ELSE errCh[s]]
    /\ adPc' = "wait"
    /\ UNCHANGED <<envVars, db, dumpDone, cancelledFirst, ctxCancelled, tickReady, ticks,
                   loggedWaiting, logCount, sadResult, g1err, deltaVars,
                   g2err, pipe, wr, fetchKeys, firstErr>>

\* select case <-ctx.Done(): return ctx.Err()
SADCancelled ==
    /\ sadPc = "waiting"
    /\ ctxCancelled
    /\ sadPc' = "returned"
    /\ sadResult' = "Canceled"
    /\ UNCHANGED <<envVars, db, dumpDone, cancelledFirst, ctxCancelled, tickReady, ticks,
                   loggedWaiting, logCount, syncCalls, g1err, errCh,
                   deltaVars, applyVars, firstErr>>

\* ----------------------------------------------------------------- streams
\* The error a stream reports when its collaborator fails.
FailureOf(s) ==
    CASE s = <<"sync", "redis">> -> "CacheFailure"
      [] s = <<"sync", "db">> -> "DbFailure"
      [] s[2] = "fetch" -> "CacheFailure"
      [] s[2] = "hydrate" -> "DecodeFailure"
      [] OTHER -> "Inconsistency"

\* Hands the error e returned by a goroutine to the errgroup of scope sc.
Deliver(sc, e) ==
    IF sc = "sync"
    THEN /\ g1err' = GoReturn(g1err, e)
         /\ firstErr' = IF firstErr = "nil" THEN e ELSE firstErr
         /\ g2err' = g2err
    ELSE /\ g2err' = GoReturn(g2err, e)
         /\ UNCHANGED <<g1err, firstErr>>

ScopeOf(s) == IF s \in SyncStreams THEN "sync" ELSE "apply"

\* The streams and writers whose collaborator has failed so far.
FailedSources ==
    {s \in Streams : errCh[s] \in Failures \cup {"failed"}}
        \cup {x \in Writers : wr[x] = "failed"}

\* The collaborator behind a YieldAll stream fails: the error goes to the
\* error stream and the data stream ends.
YieldAllFail(s) ==
    /\ s \in SyncStreams
    /\ errCh[s] = "open"
    /\ ~Ctx1Done
    /\ Cardinality(FailedSources) < MaxFailures
    /\ errCh' = [errCh EXCEPT ![s] = FailureOf(s)]
    /\ UNCHANGED <<envVars, db, ctxCancelled, barrierVars, sadPc, sadResult,
                   g1err, deltaVars, applyVars, firstErr>>

\* com.ErrgroupReceive: the forwarder goroutine receives the error the stream
\* has sent and returns it to the errgroup.
Forward(s) ==
    /\ errCh[s] \in Failures
    /\ Deliver(ScopeOf(s), errCh[s])
    /\ errCh' = [errCh EXCEPT ![s] = "failed"]
    /\ UNCHANGED <<envVars, db, ctxCancelled, barrierVars, sadPc, sadResult,
                   deltaVars, adPc, pipe, wr, fetchKeys>>

\* A YieldAll stream observes the cancellation of its ctx: it ends and its
\* forwarder returns ctx.Err() to the errgroup.
YieldAllCancel(s) ==
    /\ s \in SyncStreams
    /\ errCh[s] = "open"
    /\ Ctx1Done
    /\ Deliver("sync", "Canceled")
    /\ errCh' = [errCh EXCEPT ![s] = "done"]
    /\ UNCHANGED <<envVars, db, ctxCancelled, barrierVars, sadPc, sadResult,
                   deltaVars, adPc, pipe, wr, fetchKeys>>

\* redis.YieldAll / db.YieldAll have yielded everything: both channels close
\* and the forwarder returns nil.
YieldAllClose(s) ==
    /\ s \in SyncStreams
    /\ errCh[s] = "open"
    /\ IF s[2] = "redis" THEN desiredSent = DOMAIN D ELSE actualSent = DOMAIN A
    /\ errCh' = [errCh EXCEPT ![s] = "done"]
    /\ UNCHANGED <<envVars, db, ctxCancelled, barrierVars, sadPc, sadResult,
                   g1err, deltaVars, applyVars, firstErr>>

\* ------------------------------------------------------------------- Delta
\* An element of the desired stream arrives: it is accumulated in the
\* desired map.
DesiredArrives(id) ==
    /\ errCh[<<"sync", "redis">>] = "open"
    /\ ~Ctx1Done
    /\ deltaDone = "building"
    /\ id \in DOMAIN D \ desiredSent
    /\ desiredSent' = desiredSent \cup {id}
    /\ desiredMap' = Put(desiredMap, id, D[id])
    /\ UNCHANGED <<envVars, db, ctxCancelled, barrierVars, sadPc, sadResult,
                   g1err, errCh, actualSent, deltaCreate, deltaUpdate,
                   deltaDelete, deltaDone, applyVars, firstErr>>

\* Whether the element (id, sum) of the actual stream has to be updated,
\* given the checksum the desired map holds for it.
NeedsUpdate(desiredSum, actualSum) == w /\ desiredSum # actualSum

\* An element of the actual stream arrives.
ActualArrives(id) ==
    /\ errCh[<<"sync", "db">>] = "open"
    /\ ~Ctx1Done
    /\ deltaDone = "building"
    /\ id \in DOMAIN A \ actualSent
    /\ actualSent' = actualSent \cup {id}
    /\ IF id \notin DOMAIN desiredMap
       THEN /\ deltaDelete' = deltaDelete \cup {id}
            /\ UNCHANGED <<desiredMap, deltaUpdate>>
       ELSE /\ deltaUpdate' = IF NeedsUpdate(desiredMap[id], A[id])
                              THEN Put(deltaUpdate, id, desiredMap[id])
                              ELSE deltaUpdate
            /\ desiredMap' = Remove(desiredMap, id)
            /\ UNCHANGED deltaDelete
    /\ UNCHANGED <<envVars, db, ctxCancelled, barrierVars, sadPc, sadResult,
                   g1err, errCh, desiredSent, deltaCreate, deltaDone,
                   applyVars, firstErr>>

\* Both streams have closed: what remains in the desired map becomes Create
\* and the Delta is complete.
DeltaFinish ==
    /\ deltaDone = "building"
    /\ errCh[<<"sync", "redis">>] \notin {"idle", "open"}
    /\ errCh[<<"sync", "db">>] \notin {"idle", "open"}
    /\ deltaCreate' = desiredMap
    /\ deltaDone' = "nil"
    /\ UNCHANGED <<envVars, db, ctxCancelled, barrierVars, sadPc, sadResult,
                   g1err, errCh, desiredSent, actualSent, desiredMap,
                   deltaUpdate, deltaDelete, applyVars, firstErr>>

\* The scope is cancelled while the Delta is under construction.
DeltaCancel ==
    /\ deltaDone = "building"
    /\ sadPc = "syncing"
    /\ Ctx1Done
    /\ deltaDone' = "Canceled"
    /\ UNCHANGED <<envVars, db, ctxCancelled, barrierVars, sadPc, sadResult,
                   g1err, errCh, desiredSent, actualSent, desiredMap,
                   deltaCreate, deltaUpdate, deltaDelete, applyVars, firstErr>>

\* -------------------------------------------------------------- ApplyDelta
\* delta.Create.Keys() / delta.Update.Keys()
Keys(f) == DOMAIN f

\* The mapping SetChecksums is given on path p.
ChecksumsById(p) == IF p = "create" THEN deltaCreate ELSE deltaUpdate

\* An ApplyDelta that enters the branch of every partition.
LaunchesAlways(x) == TRUE

\* Whether the branch of a partition is entered: len(partition) > 0.
Launches(x) ==
    CASE x = "create" -> Keys(deltaCreate) # {}
      [] x = "update" -> Keys(deltaUpdate) # {}
      [] OTHER -> deltaDelete # {}

\* An ApplyDelta that takes the entities of every path from the delta.
HydratesNever(p) == FALSE

\* Whether the entities of path p come from the cache (HMYield ->
\* CreateEntities -> SetChecksums) rather than from the delta itself.
Hydrates(p) == IF p = "create" THEN w ELSE TRUE

\* An ApplyDelta that takes the ids to delete out of the Delta.
DeltaDeleteTaken ==
    /\ deltaDelete' = {}
    /\ UNCHANGED <<desiredSent, actualSent, desiredMap, deltaCreate,
                   deltaUpdate, deltaDone>>

\* ApplyDelta reads the partitions (len, Keys(), Entities(), IDs()) and
\* assigns none of them.
DeltaRead == UNCHANGED deltaVars

\* An ApplyDelta that goes on whatever delta.Wait() returns.
WaitFailedIgnored == FALSE

\* if err := delta.Wait(); err != nil
WaitFailed == deltaDone # "nil"

\* if err := delta.Wait(); err != nil { return err }; otherwise the branches
\* of the non-empty partitions are set up, up to g.Wait().
ADWait ==
    /\ adPc = "wait"
    /\ deltaDone # "building"
    /\ IF WaitFailed
       THEN /\ Deliver("sync", deltaDone)
            /\ adPc' = "returned"
            /\ UNCHANGED <<errCh, pipe, wr, fetchKeys>>
       ELSE /\ adPc' = "running"
            /\ fetchKeys' = [p \in Paths |->
                    IF Launches(p) /\ Hydrates(p) THEN Keys(ChecksumsById(p)) ELSE {}]
            /\ errCh' = [s \in Streams |->
                    IF s \in ApplyStreams /\ Launches(s[1]) /\ Hydrates(s[1])
                    THEN "open" ELSE errCh[s]]
            /\ pipe' = [x \in Writers |->
                    CASE x = "delete" -> [k \in deltaDelete |-> "bound"]
                      [] OTHER -> [k \in Keys(ChecksumsById(x)) |->
                                      IF Hydrates(x) THEN "req" ELSE "bound"]]
            /\ wr' = [x \in Writers |-> IF Launches(x) THEN "running" ELSE "idle"]
            /\ UNCHANGED <<g1err, g2err, firstErr>>
    /\ DeltaRead
    /\ UNCHANGED <<envVars, db, ctxCancelled, barrierVars, sadPc, sadResult>>

AtStage(pp, x, st) == {k \in DOMAIN pp[x] : pp[x][k] = st}

\* A stage that has consumed its whole input ends: its data and error
\* channels close and its forwarder returns nil.  Ends(e, pp, st) is the state
\* of the error channels e once the stages st that are done with the
\* entities pp have ended; a stage other than HMYield is done when the stage
\* that feeds it has ended.
InputOf(st) ==
    CASE st = "fetch" -> "req"
      [] st = "hydrate" -> "fetched"
      [] OTHER -> "hydrated"

Upstream(st) == IF st = "bind" THEN "hydrate" ELSE "fetch"

Ends(e, pp, st) ==
    [s \in Streams |->
        IF /\ s \in ApplyStreams
           /\ s[2] = st
           /\ e[s] = "open"
           /\ AtStage(pp, s[1], InputOf(st)) = {}
           /\ st # "fetch" => e[<<s[1], Upstream(st)>>] # "open"
        THEN "done" ELSE e[s]]

StagesEnd(e, pp) == Ends(Ends(Ends(e, pp, "fetch"), pp, "hydrate"), pp, "bind")

\* Whether the input of a writer has ended.
InputClosed(e, x) ==
    IF x \in Paths /\ Hydrates(x) THEN e[<<x, "bind">>] # "open" ELSE TRUE

\* A writer that has consumed its whole input returns nil.
WritersEnd(ww, e, pp) ==
    [x \in Writers |->
        IF ww[x] = "running" /\ InputClosed(e, x) /\ AtStage(pp, x, "bound") = {}
        THEN "done" ELSE ww[x]]

\* The stages and writers after a step that leaves the error channels e, the
\* entities pp and the writers ww.
Settle(e, pp, ww) ==
    /\ pipe' = pp
    /\ errCh' = StagesEnd(e, pp)
    /\ wr' = WritersEnd(ww, StagesEnd(e, pp), pp)

\* redis.HMYield emits the pair of a requested key ...
HMYield(p, id) ==
    /\ errCh[<<p, "fetch">>] = "open"
    /\ ~Ctx2Done
    /\ id \in AtStage(pipe, p, "req")
    /\ Settle(errCh, [pipe EXCEPT ![p][id] = "fetched"], wr)
    /\ UNCHANGED <<envVars, db, ctxCancelled, barrierVars, sadPc, sadResult,
                   g1err, deltaVars, adPc, g2err, fetchKeys, firstErr>>

\* ... or skips the key because the cache does not hold it (any more).
HMYieldMissing(p, id) ==
    /\ errCh[<<p, "fetch">>] = "open"
    /\ ~Ctx2Done
    /\ id \in AtStage(pipe, p, "req")
    /\ Settle(errCh, [pipe EXCEPT ![p][id] = "missing"], wr)
    /\ UNCHANGED <<envVars, db, ctxCancelled, barrierVars, sadPc, sadResult,
                   g1err, deltaVars, adPc, g2err, fetchKeys, firstErr>>

\* icingaredis.CreateEntities hydrates an entity from its pair.
CreateEntities(p, id) ==
    /\ errCh[<<p, "hydrate">>] = "open"
    /\ ~Ctx2Done
    /\ id \in AtStage(pipe, p, "fetched")
    /\ Settle(errCh, [pipe EXCEPT ![p][id] = "hydrated"], wr)
    /\ UNCHANGED <<envVars, db, ctxCancelled, barrierVars, sadPc, sadResult,
                   g1err, deltaVars, adPc, g2err, fetchKeys, firstErr>>

\* icingaredis.SetChecksums looks the id up in the mapping: it binds the
\* checksum and forwards the entity, or reports the missing checksum.
SetChecksums(p, id) ==
    /\ errCh[<<p, "bind">>] = "open"
    /\ ~Ctx2Done
    /\ id \in AtStage(pipe, p, "hydrated")
    /\ IF id \in DOMAIN ChecksumsById(p)
       THEN /\ Settle(errCh, [pipe EXCEPT ![p][id] = "bound"], wr)
            /\ UNCHANGED <<g1err, g2err, firstErr>>
       ELSE /\ Settle([errCh EXCEPT ![<<p, "bind">>] = "failed"], pipe, wr)
            /\ Deliver("apply", "Inconsistency")
    /\ UNCHANGED <<envVars, db, ctxCancelled, barrierVars, sadPc, sadResult,
                   deltaVars, adPc, fetchKeys>>

\* The collaborator behind HMYield or CreateEntities fails: the stage ends
\* and its forwarder returns the error to the errgroup of ApplyDelta.  (What
\* the other goroutines do between the two is what they can do before.)
StageFail(p, st) ==
    /\ st # "bind"
    /\ errCh[<<p, st>>] = "open"
    /\ ~Ctx2Done
    /\ Cardinality(FailedSources) < MaxFailures
    /\ Deliver("apply", FailureOf(<<p, st>>))
    /\ Settle([errCh EXCEPT ![<<p, st>>] = "failed"], pipe, wr)
    /\ UNCHANGED <<envVars, db, ctxCancelled, barrierVars, sadPc, sadResult,
                   deltaVars, adPc, fetchKeys>>

\* Effect of one statement of db.CreateStreamed / db.UpdateStreamed /
\* db.Delete on the database.
DbWrite(x, id) ==
    CASE x = "create" -> Put(db, id, deltaCreate[id])
      [] x = "update" -> IF id \in DOMAIN db THEN Put(db, id, deltaUpdate[id]) ELSE db
      [] OTHER -> Remove(db, id)

\* Whether the statement execution goes ahead under the ctx of ApplyDelta.
MayWrite == ~Ctx2Done

\* A writer writes one entity (or deletes one id).
Write(x, id) ==
    /\ wr[x] = "running"
    /\ id \in AtStage(pipe, x, "bound")
    /\ MayWrite
    /\ db' = DbWrite(x, id)
    /\ Settle(errCh, [pipe EXCEPT ![x][id] = "written"], wr)
    /\ UNCHANGED <<envVars, ctxCancelled, barrierVars, sadPc, sadResult,
                   g1err, deltaVars, adPc, g2err, fetchKeys, firstErr>>

\* The database reports an error to the writer, which returns it.
WriterFail(x) ==
    /\ wr[x] = "running"
    /\ ~Ctx2Done
    /\ Cardinality(FailedSources) < MaxFailures
    /\ Deliver("apply", "DbFailure")
    /\ wr' = [wr EXCEPT ![x] = "failed"]
    /\ UNCHANGED <<envVars, db, ctxCancelled, barrierVars, sadPc, sadResult,
                   errCh, deltaVars, adPc, pipe, fetchKeys>>

\* The goroutines of ApplyDelta observe the cancellation of its ctx: the
\* stages that are still open end, the writers that are still running return,
\* each with ctx.Err().  (The order in which they do is not observable.)
ApplyCancel ==
    /\ adPc = "running"
    /\ Ctx2Done
    /\ \/ \E s \in ApplyStreams : errCh[s] = "open"
       \/ \E x \in Writers : wr[x] = "running"
    /\ Deliver("apply", "Canceled")
    /\ errCh' = [s \in Streams |->
            IF s \in ApplyStreams /\ errCh[s] = "open" THEN "done" ELSE errCh[s]]
    /\ wr' = [x \in Writers |-> IF wr[x] = "running" THEN "done" ELSE wr[x]]
    /\ UNCHANGED <<envVars, db, ctxCancelled, barrierVars, sadPc, sadResult,
                   deltaVars, adPc, pipe, fetchKeys>>

\* An ApplyDelta that returns without waiting for its goroutines.
ApplyGroupNotAwaited == TRUE

\* g.Wait() of ApplyDelta returns: every goroutine of its errgroup (the error
\* forwarders of the stages, the writers) has returned.
ApplyGroupDone ==
    /\ \A s \in ApplyStreams : errCh[s] \in {"idle", "done", "failed"}
    /\ \A x \in Writers : wr[x] # "running"

\* return g.Wait() of ApplyDelta.
ADReturn ==
    /\ adPc = "running"
    /\ ApplyGroupDone
    /\ Deliver("sync", g2err)
    /\ adPc' = "returned"
    /\ UNCHANGED <<envVars, db, ctxCancelled, barrierVars, sadPc, sadResult,
                   errCh, deltaVars, pipe, wr, fetchKeys>>

\* A Sync that returns without waiting for its goroutines.
SyncGroupNotAwaited == TRUE

\* g.Wait() of Sync returns: every goroutine of its errgroup (both error
\* forwarders, the goroutine that runs ApplyDelta) has returned.
SyncGroupDone ==
    /\ adPc = "returned"
    /\ \A s \in SyncStreams : errCh[s] \in {"done", "failed"}

\* return g.Wait() of Sync, which SyncAfterDump returns.
SyncReturn ==
    /\ sadPc = "syncing"
    /\ SyncGroupDone
    /\ sadPc' = "returned"
    /\ sadResult' = g1err
    /\ UNCHANGED <<envVars, db, ctxCancelled, barrierVars, g1err, errCh,
                   deltaVars, applyVars, firstErr>>

\* The steps of a run of Sync.
NextSync ==
    \/ CancelCtx
    \/ \E s \in SyncStreams : YieldAllFail(s)
    \/ \E s \in SyncStreams : Forward(s)
    \/ \E s \in SyncStreams : YieldAllCancel(s)
    \/ \E s \in SyncStreams : YieldAllClose(s)
    \/ \E id \in Ids : DesiredArrives(id)
    \/ \E id \in Ids : ActualArrives(id)
    \/ DeltaFinish
    \/ DeltaCancel
    \/ ADWait
    \/ \E p \in Paths, id \in Ids : HMYield(p, id)
    \/ \E p \in Paths, id \in Ids : HMYieldMissing(p, id)
    \/ \E p \in Paths, id \in Ids : CreateEntities(p, id)
    \/ \E p \in Paths, id \in Ids : SetChecksums(p, id)
    \/ \E p \in Paths, st \in Stages : StageFail(p, st)
    \/ \E x \in Writers, id \in Ids : Write(x, id)
    \/ \E x \in Writers : WriterFail(x)
    \/ ApplyCancel
    \/ ADReturn
    \/ SyncReturn

\* The steps of a run of SyncAfterDump.
Next ==
    \/ DumpDone
    \/ Tick
    \/ SADLog
    \/ SADSignal
    \/ SADCancelled
    \/ NextSync

\* The steps the goroutines of a run of Sync take by themselves: every step
\* but the cancellation by the caller and the failure of a collaborator.
Progress ==
    \/ \E s \in SyncStreams : Forward(s)
    \/ \E s \in SyncStreams : YieldAllCancel(s)
    \/ \E s \in SyncStreams : YieldAllClose(s)
    \/ \E id \in Ids : DesiredArrives(id)
    \/ \E id \in Ids : ActualArrives(id)
    \/ DeltaFinish
    \/ DeltaCancel
    \/ ADWait
    \/ \E p \in Paths, id \in Ids : HMYield(p, id)
    \/ \E p \in Paths, id \in Ids : HMYieldMissing(p, id)
    \/ \E p \in Paths, id \in Ids : CreateEntities(p, id)
    \/ \E p \in Paths, id \in Ids : SetChecksums(p, id)
    \/ \E x \in Writers, id \in Ids : Write(x, id)
    \/ ApplyCancel
    \/ ADReturn
    \/ SyncReturn

\* SyncAfterDump, any subject.
Spec == Init /\ [][Next]_vars

\* SyncAfterDump, one subject.
SpecBarrier == InitBarrier /\ [][Next]_vars

\* Sync, any subject.
SpecSync == InitSync /\ [][NextSync]_vars

\* Sync, any subject, with goroutines that run as long as they can: a
\* goroutine that is not blocked is scheduled, a collaborator that is not
\* cancelled answers.
SpecSyncFair == InitSync /\ [][NextSync]_vars /\ WF_vars(Progress)

\* ------------------------------------------------------------------ claims
\* Whether nothing of a Sync has happened yet.
NoSyncActivity ==
    /\ syncCalls = 0
    /\ sadPc # "syncing"
    /\ \A s \in Streams : errCh[s] = "idle"
    /\ desiredSent = {} /\ actualSent = {}
    /\ deltaDone = "building"
    /\ adPc = "idle"
    /\ \A x \in Writers : wr[x] = "idle" /\ pipe[x] = Empty
    /\ db = A

\* C1: SyncAfterDump starts no Sync, and nothing a Sync does (enumeration of
\* the cache, read or write of the database) happens, before the dump-done
\* signal of the subject's key is ready; Sync is called at most once.
C1_SyncOnlyAfterDumpDone ==
    /\ ~dumpDone => NoSyncActivity
    /\ syncCalls <= 1

\* The Sync SyncAfterDump started after the signal has written the database.
C1_Witness == dumpDone /\ syncCalls = 1 /\ db # A

\* C2 (as claimed): when the ctx is done before the dump-done signal fires,
\* no Sync is ever started and SyncAfterDump returns the cancellation error.
C2_NoSyncWhenCancelledFirst ==
    cancelledFirst =>
        /\ syncCalls = 0
        /\ sadPc = "returned" => sadResult = "Canceled"

\* The Delta is complete: Delta.Wait() returns nil.
Completed == deltaDone = "nil"

\* Both streams have delivered every element of the desired and the actual
\* state, no collaborator has failed and the caller has not cancelled the ctx.
Drained ==
    /\ desiredSent = DOMAIN D
    /\ actualSent = DOMAIN A
    /\ FailedSources = {}
    /\ ~ctxCancelled

\* C3 (as claimed): a completed Delta of D and A has Delete = keys(A) \ keys(D),
\* whatever the order in which the elements of the two streams arrive.
C3_DeleteIsActualMinusDesired ==
    Completed /\ Drained => deltaDelete = DOMAIN A \ DOMAIN D

\* C4 (as claimed): a completed Delta of D and A has keys(Create) = keys(D) \
\* keys(A), each id of Create mapped to its desired checksum.
C4_CreateIsDesiredMinusActual ==
    Completed /\ Drained =>
        /\ DOMAIN deltaCreate = DOMAIN D \ DOMAIN A
        /\ \A id \in DOMAIN deltaCreate : deltaCreate[id] = D[id]

\* C5 (as claimed): without WithChecksum Update is empty and the update branch
\* of ApplyDelta is not entered; with WithChecksum the keys of Update are the
\* ids of D and A whose checksums differ, each mapped to its desired checksum.
C5_UpdateIsChecksumDifference ==
    Completed /\ Drained =>
        IF w
        THEN /\ DOMAIN deltaUpdate =
                    {id \in DOMAIN D \cap DOMAIN A : D[id] # A[id]}
             /\ \A id \in DOMAIN deltaUpdate : deltaUpdate[id] = D[id]
        ELSE /\ deltaUpdate = Empty
             /\ wr["update"] = "idle"

\* C6 (as claimed): in a completed Delta Create, Update and Delete are pairwise
\* disjoint, Create and Update hold desired keys only, Delete actual keys only.
C6_PartitionsDisjoint ==
    Completed /\ Drained =>
        /\ DOMAIN deltaCreate \cap DOMAIN deltaUpdate = {}
        /\ DOMAIN deltaCreate \cap deltaDelete = {}
        /\ DOMAIN deltaUpdate \cap deltaDelete = {}
        /\ DOMAIN deltaCreate \cup DOMAIN deltaUpdate \subseteq DOMAIN D
        /\ deltaDelete \subseteq DOMAIN A

C8_NoWriteAfterCacheFailure ==
    /\ errCh[<<"sync", "redis">>] \in {"CacheFailure", "failed"}
    /\ desiredSent # DOMAIN D
    =>
        /\ db = A
        /\ \A x \in Writers : AtStage(pipe, x, "written") = {}
        /\ sadPc = "returned" /\ ~ctxCancelled => sadResult = "CacheFailure"

\* C9: when a stream or subtask of Sync has reported an error, Sync returns a
\* non-nil error: the first one that was returned to its errgroup, which is
\* the error of a failure and not the cancellation error of a sibling (unless
\* the caller has cancelled the ctx).
C9_FailFastFirstError ==
    sadPc = "returned" =>
        /\ sadResult = firstErr
        /\ FailedSources # {} => sadResult # "nil"
        /\ FailedSources # {} /\ ~ctxCancelled => sadResult \in Failures

\* A Sync has returned the error of a failure after the goroutines of
\* ApplyDelta were cancelled by it.
C9_Witness ==
    /\ sadPc = "returned"
    /\ sadResult \in Failures
    /\ g2err = "Canceled"

\* C10 (as claimed): when HMYield does not return a key of the Create or Update
\* partition (and nothing else fails or cancels the run), Sync returns the
\* Inconsistency error of SetChecksums.
C10_MissingKeyIsInconsistency ==
    /\ sadPc = "returned"
    /\ \E p \in Paths : AtStage(pipe, p, "missing") # {}
    /\ ~ctxCancelled
    /\ FailedSources \subseteq {<<"create", "bind">>, <<"update", "bind">>}
    => sadResult = "Inconsistency"

\* ApplyDelta has passed delta.Wait() without error and set up its branches.
Applied == adPc \in {"running", "returned"} /\ deltaDone = "nil"

\* The writer x has been invoked.
Invoked(x) == wr[x] # "idle"

\* C11: ApplyDelta invokes CreateStreamed iff Create is not empty,
\* UpdateStreamed iff Update is not empty and Delete iff Delete is not empty;
\* Delete gets exactly the ids of the Delete partition, none of them through
\* HMYield, CreateEntities or SetChecksums; with an empty desired state only
\* Delete is invoked and nothing is fetched from the cache.
C11_LaunchIffNonEmpty ==
    Applied =>
        /\ Invoked("create") <=> DOMAIN deltaCreate # {}
        /\ Invoked("update") <=> DOMAIN deltaUpdate # {}
        /\ Invoked("delete") <=> deltaDelete # {}
        /\ DOMAIN pipe["delete"] = deltaDelete
        /\ \A id \in DOMAIN pipe["delete"] : pipe["delete"][id] \in {"bound", "written"}
        /\ D = Empty =>
              /\ ~Invoked("create") /\ ~Invoked("update")
              /\ \A p \in Paths : fetchKeys[p] = {}
              /\ \A s \in ApplyStreams : errCh[s] = "idle"

\* Pure delete: for an empty desired state and a database with rows, Delete
\* alone has run and has emptied the database.
C11_Witness ==
    /\ Applied
    /\ D = Empty /\ A # Empty
    /\ wr = [x \in Writers |-> IF x = "delete" THEN "done" ELSE "idle"]
    /\ db = Empty

\* C12 (as claimed): HMYield is requested for exactly the keys of Create when
\* the subject has checksums and exactly the keys of Update; never for an id
\* whose desired and actual checksums are equal, never for an id of Delete,
\* and not at all for a subject without checksums, whose Create entities go
\* from the delta straight to CreateStreamed.
C12_FetchOnlyWhatIsWritten ==
    Applied /\ Drained =>
        /\ fetchKeys["create"] = IF w THEN DOMAIN deltaCreate ELSE {}
        /\ fetchKeys["update"] = DOMAIN deltaUpdate
        /\ \A p \in Paths : \A id \in fetchKeys[p] :
              /\ ~(id \in DOMAIN D \cap DOMAIN A /\ D[id] = A[id])
              /\ id \notin deltaDelete
        /\ ~w =>
              /\ \A p \in Paths : fetchKeys[p] = {}
              /\ \A s \in ApplyStreams : errCh[s] = "idle"
              /\ \A id \in DOMAIN pipe["create"] :
                    pipe["create"][id] \in {"bound", "written"}

\* C13: while SyncAfterDump waits it emits one "Waiting for dump done signal"
\* entry per elapsed 20 s period and no other: never more entries than
\* periods, as many entries as periods whenever it waits with no tick left to
\* receive (one entry after 25 s), and no entry once it has left the select
\* with the signal or with the cancellation.
C13_OneLogPerPeriod ==
    /\ [](logCount <= ticks)
    /\ [](sadPc = "waiting" /\ ~tickReady => logCount = ticks)
    /\ [][sadPc # "waiting" => logCount' = logCount]_vars

\* 25 s without a signal: one period has elapsed and one entry was emitted.
C13_Witness ==
    /\ sadPc = "waiting"
    /\ ~dumpDone
    /\ ticks = 1 /\ ~tickReady
    /\ logCount = 1 /\ loggedWaiting

\* C16: when Sync has returned, nothing it started is still running: both
\* enumerations and their error forwarders, the construction of the Delta,
\* ApplyDelta, its HMYield, CreateEntities and SetChecksums stages and its
\* writers have all ended.
C16_NoOrphans ==
    sadPc = "returned" /\ syncCalls = 1 =>
        /\ \A s \in SyncStreams : errCh[s] \in {"done", "failed"}
        /\ deltaDone # "building"
        /\ adPc = "returned"
        /\ \A s \in ApplyStreams : errCh[s] \in {"idle", "done", "failed"}
        /\ \A x \in Writers : wr[x] # "running"

\* A Sync has returned after a failure cancelled stages and writers that
\* were at work.
C16_Witness ==
    /\ sadPc = "returned"
    /\ sadResult \in Failures
    /\ \E x \in Paths : AtStage(pipe, x, "req") # {}
    /\ \E x \in Writers : AtStage(pipe, x, "bound") # {} /\ wr[x] = "done"

\* ApplyDelta has requested keys from the cache, started a stage or a writer,
\* or the database has been written.
ApplyIO ==
    \/ \E p \in Paths : fetchKeys[p] # {}
    \/ \E s \in ApplyStreams : errCh[s] # "idle"
    \/ \E x \in Writers : Invoked(x) \/ pipe[x] # Empty
    \/ db # A

\* C17: ApplyDelta fetches nothing from the cache and writes nothing to the
\* database before Delta.Wait has returned nil, which it does only once the
\* desired and the actual stream have been drained to their end; when
\* Delta.Wait returns an error ApplyDelta returns it (the errgroup of Sync
\* holds an error) without any HMYield, CreateStreamed, UpdateStreamed or
\* Delete.
C17_NoIOBeforeWait ==
    /\ ApplyIO =>
          /\ deltaDone = "nil"
          /\ adPc \in {"running", "returned"}
          /\ \A s \in SyncStreams : errCh[s] \notin {"idle", "open"}
    /\ deltaDone \notin {"building", "nil"} /\ adPc = "returned" =>
          /\ ~ApplyIO
          /\ g1err # "nil"

\* ApplyDelta has returned the error of Delta.Wait for a Delta that had
\* already found ids to delete, and the database is untouched.
C17_Witness ==
    /\ deltaDone = "Canceled"
    /\ adPc = "returned"
    /\ deltaDelete # {}
    /\ db = A

\* The stage the entity id has reached on the way to writer x.
StageOf(pp, x, id) == IF id \in DOMAIN pp[x] THEN pp[x][id] ELSE "none"

\* C18: an entity is written by CreateStreamed (subject with checksums) or
\* UpdateStreamed only after it was fetched from the cache, then hydrated by
\* CreateEntities, then bound by SetChecksums to the checksum its partition
\* holds for it; the checksum written is the desired checksum D[id], and every
\* id written belongs to the partition of its writer.
C18_PipelineDependency ==
    [][\A x \in Paths : \A id \in Ids :
        LET before == StageOf(pipe, x, id)
            after == StageOf(pipe', x, id)
            partition == IF x = "create" THEN deltaCreate ELSE deltaUpdate
        IN  /\ after = "written" /\ before # "written" =>
                  /\ before = "bound"
                  /\ id \in DOMAIN partition
                  /\ id \in DOMAIN db' /\ db'[id] = D[id]
            /\ x = "update" \/ w =>
                  /\ after = "bound" /\ before # "bound" =>
                        /\ before = "hydrated"
                        /\ id \in DOMAIN partition /\ partition[id] = D[id]
                  /\ after = "hydrated" /\ before # "hydrated" => before = "fetched"
                  /\ after = "fetched" /\ before # "fetched" => before = "req"
      ]_vars

\* A subject with checksums has had one entity created and another updated
\* through the pipeline, and the database holds the desired state.
C18_Witness ==
    /\ w
    /\ \E id \in Ids : StageOf(pipe, "create", id) = "written"
    /\ \E id \in Ids : StageOf(pipe, "update", id) = "written"
    /\ db = D

\* C19: from the moment Delta.Wait can return, on success, error and
\* cancellation alike, no step of ApplyDelta, its stages or its writers
\* changes the Create, Update or Delete partition.
C19_DeltaUnchanged ==
    [][deltaDone # "building" =>
          UNCHANGED <<deltaCreate, deltaUpdate, deltaDelete, deltaDone>>]_vars

\* ApplyDelta has returned after writes to the database, and the Delta still
\* holds the entries to create and to delete.
C19_Witness ==
    /\ adPc = "returned"
    /\ deltaDone = "nil"
    /\ deltaCreate # Empty /\ deltaDelete # {}
    /\ \A x \in {"create", "delete"} : AtStage(pipe, x, "written") # {}

\* C20 (as claimed): a Sync whose ctx was cancelled during the run does not
\* return nil.
C20_CancelledSyncFails ==
    sadPc = "returned" /\ ctxCancelled => sadResult # "nil"

\* Every subtask of the run has finished its work.
Finished ==
    /\ \A s \in SyncStreams : errCh[s] = "done"
    /\ deltaDone = "nil"
    /\ g2err = "nil"
    /\ \A s \in ApplyStreams : errCh[s] \in {"idle", "done"}
    /\ \A x \in Writers :
          /\ wr[x] \in {"idle", "done"}
          /\ \A id \in DOMAIN pipe[x] : pipe[x][id] \in {"written", "missing"}

\* C20 (amended): Sync always returns in the end, cancelled or not; it returns
\* nil only when every subtask has finished its work, so a cancellation that
\* reaches a subtask at work makes it return an error; and it returns nil when
\* the ctx was never cancelled and no stream or database operation failed.
C20_SyncTerminates ==
    /\ <>(sadPc = "returned")
    /\ [](sadPc = "returned" /\ sadResult = "nil" => Finished)
    /\ [](sadPc = "returned" /\ ~ctxCancelled /\ FailedSources = {}
              => sadResult = "nil")

\* A Sync cancelled by its caller in the middle of the writes has returned
\* the cancellation error.
C20_Witness ==
    /\ sadPc = "returned"
    /\ ctxCancelled
    /\ sadResult = "Canceled"
    /\ \E x \in Writers :
          AtStage(pipe, x, "written") # {} /\ AtStage(pipe, x, "bound") # {}

====
